---- MODULE Spec2Model ----
(***************************************************************************)
(* The batch generation drivers of multiverse_clicker:                     *)
(*   "base"     generate_elevenlabs_audio.py          (tenacity, streaming) *)
(*   "fixed"    generate_elevenlabs_audio_fixed.py    (retry loop, stream)  *)
(*   "complete" generate_elevenlabs_audio_complete.py (retry loop, buffer)  *)
(*   "vertex"   generate_vertex_images.py             (tenacity, images)    *)
(*   "a2a"      elevenlabs_a2a_agent.py               (tool wrapper)        *)
(* One run of a driver walks the prompt list; the output directory `fs`    *)
(* survives from one run to the next.                                      *)
(***************************************************************************)
EXTENDS Integers, Sequences, FiniteSets, TLC

VARIABLES
    variant,    \* which script is run
    argsForce,  \* --force   (generate_elevenlabs_audio_complete.py)
    argsRetry,  \* --retry   (generate_elevenlabs_audio_fixed.py)
    argsN,      \* --n       (generate_vertex_images.py)
    prompts,    \* the JSON prompt list: a sequence of filenames
    fs,         \* the output directory: path -> [size, by]; size -1 is "no file"
    partial,    \* the paths opened for writing and never closed after a full write
    run,        \* number of the current run of the script
    pc,         \* position of the driver
    loopList,   \* the indices of `prompts` the main loop iterates
    pos,        \* position of the main loop in loopList
    attempt,    \* attempts already failed for the current record
    hist,       \* the collaborator's answers for the current record, in order
    waits,      \* the sleeps made for the current record, in order
    calls,      \* collaborator calls made for the current record
    body,       \* size of the response being written (images returned, for vertex)
    prog,       \* images saved so far from the current response (vertex)
    pre,        \* snapshot of fs taken when the current record was examined
    outcome,    \* per record: the line the driver reported for it
    raised,     \* the records whose generation raised into main's except
    rmFailed,   \* os.remove raised OSError for the current record (a2a)
    clean,      \* no call, stream or write of this run has failed, no kill
    prevClean,  \* the previous run ended normally and was clean
    apiKey,     \* an API key is supplied (--api-key / input field / environment)
    hasText,    \* per entry: it has its payload fields ("text", "voice_id"; "prompt")
    filename,   \* path resolution: the "filename" of an entry, as path components
    out_path,   \* path resolution: the path the driver resolved it to
    args,       \* request parameters: the batch-level command line values
    entry,      \* request parameters: the optional fields of the entry
    payload,    \* request parameters: what is sent to the collaborator
    errors_list, \* the number of error messages the tool has collected (a2a)
    wpc,        \* concurrent runs: the position of each run
    wbody       \* concurrent runs: the size of the response each run is writing

\* the variables of the two pure computations modelled on their own
concVars == <<wpc, wbody>>
sideVars == <<filename, out_path, args, entry, payload, concVars>>

vars == <<variant, argsForce, argsRetry, argsN, prompts, fs, partial, run, pc, loopList,
          pos, attempt, hist, waits, calls, body, prog, pre, outcome, raised,
          rmFailed, clean, prevClean, apiKey, hasText, errors_list, sideVars>>

-----------------------------------------------------------------------------
(* Bounds of the model *)
MaxRecords == 2
MaxRuns == 2
MaxN == 2

(* Program constants *)
MAX_RETRIES == 3
RETRY_DELAY == 2
STOP_AFTER_ATTEMPT == 5
WAIT_MULTIPLIER == 1
WAIT_MIN == 4
WAIT_MAX == 60
SMALL_FILE == 10000
CHUNK_SIZE == 4096

Variants == {"base", "fixed", "complete", "vertex", "a2a"}
Files == {"a.mp3", "b.mp3"}
\* entry.get("filename") of an entry that has no "filename"
NoFilename == "None"
Paths == Files \X (0 .. MaxN)
Absent == [size |-> -1, by |-> 0]
Bodies == {0, 4096, 10000}
InitSizes == {-1, 0, 10000}
\* bytes of one saved image
ImageSizes == {4096}
\* the prompt lists, up to renaming of the files: the first entry names a.mp3
\* and an entry may lack its "filename"
PromptLists ==
    {l \in UNION {[1 .. n -> Files \cup {NoFilename}] : n \in 1 .. MaxRecords} :
        \A i \in 1 .. Len(l) :
            (l[i] # NoFilename /\ \A j \in 1 .. i - 1 : l[j] = NoFilename)
                => l[i] = "a.mp3"}

Min(a, b) == IF a < b THEN a ELSE b
Max(a, b) == IF a > b THEN a ELSE b

RECURSIVE Pow2(_)
Pow2(n) == IF n <= 0 THEN 1 ELSE 2 * Pow2(n - 1)

-----------------------------------------------------------------------------
(* The file system, as pathlib sees it *)
Exists(p) == fs[p].size >= 0
StSize(p) == fs[p].size

\* out_path = outdir / fname
OutPath(f) == <<f, 0>>
\* out_dir / f"{stem}_{i}{suffix}", i in range(n): slot i+1 of the file name
IndexedPath(f, i) == <<f, i + 1>>

\* the paths generate_and_save_image_with_retry writes image i of a record to
SavePath(f, i) == IF argsN > 1 THEN IndexedPath(f, i) ELSE OutPath(f)

\* the paths a record of file name f can touch under the current arguments
RecordPaths(f) ==
    IF f = NoFilename THEN {}
    ELSE IF variant = "vertex" /\ argsN > 1
    THEN {IndexedPath(f, i) : i \in 0 .. argsN - 1}
    ELSE {OutPath(f)}

Cur == loopList[pos]
CurFile == prompts[Cur]

Running == pc \notin {"start", "fin", "killed", "crashed", "cfg_error"}

\* the variables of the pure computations, while a batch is modelled
SideIdle ==
    /\ filename = <<>>
    /\ out_path = <<>>
    /\ args = <<>>
    /\ entry = <<>>
    /\ payload = <<>>
    /\ wpc = <<>>
    /\ wbody = <<>>

-----------------------------------------------------------------------------
(* The external collaborator: what one generation call can answer.  An      *)
(* "ok" answer carries a body: bytes of audio, or a number of images.       *)
Answers == {"rate_limited", "http_error", "network", "ok"}

AnswerBodies(ans) ==
    IF ans # "ok" THEN {0}
    ELSE IF variant = "vertex" THEN 0 .. argsN
    ELSE Bodies

\* the answer holds everything that was asked for: all n images (an image
\* request can be answered with fewer images than number_of_images)
FullAnswer(b) == variant = "vertex" => b = argsN

\* what the answer was, as recorded in hist
Kind(ans, b) == IF ans = "ok" /\ b = 0 THEN "empty" ELSE ans

Indices == [i \in 1 .. Len(prompts) |-> i]

-----------------------------------------------------------------------------
Init ==
    /\ variant \in Variants
    /\ argsForce \in (IF variant = "complete" THEN BOOLEAN ELSE {FALSE})
    /\ argsRetry \in (IF variant = "fixed" THEN BOOLEAN ELSE {FALSE})
    /\ argsN \in (IF variant = "vertex" THEN 1 .. MaxN ELSE {1})
    /\ prompts \in PromptLists
    /\ variant = "a2a" => \A i \in 1 .. Len(prompts) : prompts[i] # NoFilename
    /\ hasText \in [1 .. Len(prompts) -> BOOLEAN]
    /\ \A i \in 1 .. Len(prompts) :
          (variant = "a2a" \/ prompts[i] = NoFilename) => hasText[i]
    /\ apiKey \in (IF variant = "vertex" THEN {TRUE} ELSE BOOLEAN)
    /\ SideIdle
    /\ fs \in {g \in [Paths -> {[size |-> s, by |-> 0] :
                                  s \in IF variant = "vertex"
                                        THEN {-1} \cup ImageSizes ELSE InitSizes}] :
                 \A p \in Paths :
                    (\A i \in 1 .. Len(prompts) : p \notin RecordPaths(prompts[i]))
                        => g[p] = Absent}
    /\ partial = {}
    /\ run = 1
    /\ pc = "start"
    /\ loopList = <<>>
    /\ pos = 1
    /\ attempt = 0
    /\ hist = <<>>
    /\ waits = <<>>
    /\ calls = 0
    /\ body = 0
    /\ prog = 0
    /\ pre = fs
    /\ outcome = [i \in 1 .. Len(prompts) |-> "none"]
    /\ raised = {}
    /\ rmFailed = FALSE
    /\ clean = TRUE
    /\ prevClean = FALSE
    /\ errors_list = 0

-----------------------------------------------------------------------------
(* main(), up to the loop *)

\* mutant: every entry whose file exists is selected, whatever its size
zero_files_any_size ==
    SelectSeq(Indices,
              LAMBDA i : prompts[i] # NoFilename /\ Exists(OutPath(prompts[i])))

\* --retry: the entries whose file exists with size 0, in list order
zero_files ==
    SelectSeq(Indices,
              LAMBDA i : /\ prompts[i] # NoFilename
                         /\ Exists(OutPath(prompts[i]))
                         /\ StSize(OutPath(prompts[i])) = 0)

\* mutant: the list is walked from its last entry to its first
RetryFilter_reversed == [k \in 1 .. Len(prompts) |-> Len(prompts) + 1 - k]

RetryFilter == IF variant = "fixed" /\ argsRetry THEN zero_files ELSE Indices

\* mutant: the check for the API key left out
api_key_missing_never == FALSE

\* if not args.api_key: sys.exit(...); the tool returns errors=[...]
\* (generate_vertex_images.py takes no API key)
api_key_missing == variant # "vertex" /\ ~apiKey

\* entry["filename"] is evaluated for every entry before the main loop: by the
\* --retry filter of the fixed script, by the small_files scan of the complete
\* script.  An entry without "filename" raises KeyError there.
PrescanKeyError ==
    /\ variant = "complete" \/ (variant = "fixed" /\ argsRetry)
    /\ \E i \in 1 .. Len(prompts) : prompts[i] = NoFilename

MainStart ==
    /\ pc = "start"
    /\ IF api_key_missing
       THEN pc' = "cfg_error" /\ UNCHANGED <<loopList, outcome>>
       ELSE IF PrescanKeyError
       THEN pc' = "crashed" /\ UNCHANGED <<loopList, outcome>>
       ELSE /\ loopList' = RetryFilter
            /\ outcome' = [i \in 1 .. Len(prompts) |->
                             IF \E k \in 1 .. Len(RetryFilter) : RetryFilter[k] = i
                             THEN "none" ELSE "dropped"]
            /\ pc' = IF RetryFilter = <<>> THEN "fin" ELSE "check"
    /\ pos' = 1
    /\ errors_list' = IF api_key_missing /\ variant = "a2a" THEN 1 ELSE errors_list
    /\ UNCHANGED <<sideVars, apiKey, hasText, variant, argsForce, argsRetry, argsN,
                   prompts, fs, partial, run, attempt, hist, waits, calls, body,
                   prog, pre, raised, rmFailed, clean, prevClean>>

-----------------------------------------------------------------------------
(* The skip-if-exists checks *)
\* mutant: an existing file is never a reason to skip
skip_base_never(f) == FALSE

skip_base(f) == Exists(OutPath(f))

skip_fixed(f) == ~argsRetry /\ Exists(OutPath(f)) /\ StSize(OutPath(f)) > 0

\* mutant: the threshold compared with > instead of >=
skip_complete_gt(f) ==
    ~argsForce /\ Exists(OutPath(f)) /\ StSize(OutPath(f)) > SMALL_FILE

\* mutant: --force is not looked at
skip_complete_unforced(f) == Exists(OutPath(f)) /\ StSize(OutPath(f)) >= SMALL_FILE

skip_complete(f) ==
    ~argsForce /\ Exists(OutPath(f)) /\ StSize(OutPath(f)) >= SMALL_FILE

\* mutant: one existing file is enough to skip the entry
some_file_exists(f) ==
    IF argsN = 1 THEN Exists(OutPath(f))
    ELSE \E i \in 0 .. argsN - 1 : Exists(IndexedPath(f, i))

all_files_exist(f) ==
    IF argsN = 1 THEN Exists(OutPath(f))
    ELSE \A i \in 0 .. argsN - 1 : Exists(IndexedPath(f, i))

SkipExisting(f) ==
    CASE variant = "base" -> skip_base(f)
      [] variant = "fixed" -> skip_fixed(f)
      [] variant = "complete" -> skip_complete(f)
      [] variant = "vertex" -> all_files_exist(f)
      [] variant = "a2a" -> FALSE

ResetRecord ==
    /\ pre' = fs
    /\ hist' = <<>>
    /\ waits' = <<>>
    /\ calls' = 0
    /\ attempt' = 0
    /\ body' = 0
    /\ prog' = 0
    /\ rmFailed' = FALSE

\* fname = entry["filename"] of an entry without "filename": KeyError, raised
\* outside the try block, ends the script with a traceback
KeyErrorFilename ==
    /\ pc = "check"
    /\ variant \in {"base", "fixed"}
    /\ CurFile = NoFilename
    /\ pc' = "crashed"
    /\ UNCHANGED <<sideVars, errors_list, apiKey, hasText, variant, argsForce, argsRetry,
                   argsN,
                   prompts, fs, partial, run, loopList, pos, attempt, hist, waits,
                   calls, body, prog, pre, outcome, raised, rmFailed, clean,
                   prevClean>>

\* if not prompt or not filename: "Skipping malformed entry", continue
malformed_entry == CurFile = NoFilename \/ ~hasText[Cur]

SkipMalformed ==
    /\ pc = "check"
    /\ variant = "vertex"
    /\ malformed_entry
    /\ ResetRecord
    /\ outcome' = [outcome EXCEPT ![Cur] = "skipped"]
    /\ pc' = "next"
    /\ UNCHANGED <<sideVars, errors_list, apiKey, hasText, variant, argsForce, argsRetry,
                   argsN,
                   prompts, fs, partial, run, loopList, pos, raised, clean, prevClean>>

\* the entry reaches the skip-if-exists check
Examined ==
    /\ pc = "check"
    /\ CurFile # NoFilename
    /\ variant = "vertex" => ~malformed_entry

\* the loop examines the next entry and skips it
SkipRecord ==
    /\ Examined
    /\ SkipExisting(CurFile)
    /\ ResetRecord
    /\ outcome' = [outcome EXCEPT ![Cur] = "skipped"]
    /\ pc' = "next"
    /\ UNCHANGED <<sideVars, errors_list, apiKey, hasText, variant, argsForce, argsRetry,
                   argsN, prompts, fs, partial, run, loopList,
                   pos, raised, clean, prevClean>>

\* the loop examines the next entry and goes on to generate it
BeginRecord ==
    /\ Examined
    /\ ~SkipExisting(CurFile)
    /\ ResetRecord
    /\ pc' = IF variant = "a2a" THEN "touch" ELSE "call"
    /\ UNCHANGED <<sideVars, errors_list, apiKey, hasText, variant, argsForce, argsRetry,
                   argsN, prompts, fs, partial, run, loopList,
                   pos, outcome, raised, clean, prevClean>>

-----------------------------------------------------------------------------
(* Retry policies *)

\* mutant: no error is retried
is_http_429_error_never(ans) == FALSE

\* mutant: every HTTP error is retried, whatever its status code
is_http_429_error_any_status(ans) == ans \in {"rate_limited", "http_error"}

\* retry=is_http_429_error (audio), isinstance(..., ResourceExhausted) (images)
is_http_429_error(ans) == ans = "rate_limited"

\* mutant: off by one, a sixth attempt is made
stop_after_attempt_gt(n) == n > STOP_AFTER_ATTEMPT

\* stop=stop_after_attempt(5): n is the number of the attempt that just failed
stop_after_attempt(n) == n >= STOP_AFTER_ATTEMPT

\* mutant: the exponential without its lower and upper limit
wait_exponential_unclamped(n) == WAIT_MULTIPLIER * Pow2(n - 1)

\* wait=wait_exponential(multiplier=1, min=4, max=60), after failed attempt n
wait_exponential(n) ==
    Max(WAIT_MIN, Min(WAIT_MULTIPLIER * Pow2(n - 1), WAIT_MAX))

\* mutant: off by one, the last attempt is retried too
retry_again_le(retry) == retry <= MAX_RETRIES - 1

\* for retry in range(MAX_RETRIES): ... if retry < MAX_RETRIES - 1: sleep, go on
retry_again(retry) == retry < MAX_RETRIES - 1

\* mutant: the empty-body check left out
loop_success_any(ans, b) == ans = "ok"

\* the answers generate() of the fixed and complete scripts returns a value for
loop_success(ans, b) == ans = "ok" /\ b > 0

\* the exception leaves generate() and reaches main's except clause
Raise ==
    /\ raised' = raised \cup {Cur}
    /\ clean' = FALSE
    /\ pc' = "except"

-----------------------------------------------------------------------------
(* generate(), generate_elevenlabs_audio.py, and                            *)
(* generate_and_save_image_with_retry(), generate_vertex_images.py: one     *)
(* attempt under tenacity's @retry                                          *)
\* voice_id = tts_cfg["voice_id"], "text": tts_cfg["text"]: an entry without
\* them raises KeyError before any request is sent; KeyError is not retried
GenerateKeyError ==
    /\ pc = "call"
    /\ ~hasText[Cur]
    /\ Raise
    /\ UNCHANGED <<sideVars, errors_list, apiKey, hasText, variant, argsForce, argsRetry,
                   argsN,
                   prompts, fs, partial, run, loopList, pos, attempt, hist, waits,
                   calls, body, prog, pre, outcome, rmFailed, prevClean>>

TenacityCall ==
    /\ pc = "call"
    /\ hasText[Cur]
    /\ variant \in {"base", "vertex"}
    /\ \E ans \in Answers :
       \E b \in AnswerBodies(ans) :
          /\ calls' = calls + 1
          /\ hist' = Append(hist, Kind(ans, b))
          /\ IF ans = "ok"
             THEN /\ body' = b
                  /\ pc' = IF variant = "vertex" THEN "save" ELSE "open"
                  /\ clean' = (clean /\ FullAnswer(b))
                  /\ UNCHANGED <<attempt, waits, raised>>
             ELSE IF is_http_429_error(ans) /\ ~stop_after_attempt(attempt + 1)
             THEN /\ attempt' = attempt + 1
                  /\ waits' = Append(waits, wait_exponential(attempt + 1))
                  /\ clean' = FALSE
                  /\ pc' = "call"
                  /\ UNCHANGED <<body, raised>>
             ELSE /\ Raise
                  /\ UNCHANGED <<attempt, waits, body>>
    /\ UNCHANGED <<sideVars, errors_list, apiKey, hasText, variant, argsForce, argsRetry,
                   argsN, prompts, fs, partial, run, loopList,
                   pos, prog, pre, outcome, rmFailed, prevClean>>

(* generate(), generate_elevenlabs_audio_fixed.py, and generate_audio(),    *)
(* generate_elevenlabs_audio_complete.py: one pass of the retry loop        *)
RetryLoopCall ==
    /\ pc = "call"
    /\ hasText[Cur]
    /\ variant \in {"fixed", "complete"}
    /\ \E ans \in Answers :
       \E b \in AnswerBodies(ans) :
          /\ calls' = calls + 1
          /\ hist' = Append(hist, Kind(ans, b))
          /\ IF loop_success(ans, b)
             THEN /\ body' = b
                  /\ pc' = "open"
                  /\ UNCHANGED <<attempt, waits, raised, clean>>
             ELSE IF retry_again(attempt)
             THEN /\ attempt' = attempt + 1
                  /\ waits' = Append(waits, RETRY_DELAY)
                  /\ clean' = FALSE
                  /\ pc' = "call"
                  /\ UNCHANGED <<body, raised>>
             ELSE /\ Raise
                  /\ UNCHANGED <<attempt, waits, body>>
    /\ UNCHANGED <<sideVars, errors_list, apiKey, hasText, variant, argsForce, argsRetry,
                   argsN, prompts, fs, partial, run, loopList,
                   pos, prog, pre, outcome, rmFailed, prevClean>>

-----------------------------------------------------------------------------
(* Writing the result *)

\* with open(out_path, "wb") as f: the file is created, or truncated
OpenFile ==
    /\ pc = "open"
    /\ fs' = [fs EXCEPT ![OutPath(CurFile)] = [size |-> 0, by |-> Cur]]
    /\ partial' = partial \cup {OutPath(CurFile)}
    /\ pc' = "write"
    /\ UNCHANGED <<sideVars, errors_list, apiKey, hasText, variant, argsForce, argsRetry,
                   argsN, prompts, run, loopList, pos,
                   attempt, hist, waits, calls, body, prog, pre, outcome, raised,
                   rmFailed, clean, prevClean>>

\* for chunk in stream: f.write(chunk)   (streaming scripts)
WriteChunk ==
    /\ pc = "write"
    /\ variant \in {"base", "fixed"}
    /\ StSize(OutPath(CurFile)) < body
    /\ fs' = [fs EXCEPT ![OutPath(CurFile)].size =
                 @ + Min(CHUNK_SIZE, body - @)]
    /\ UNCHANGED partial
    /\ UNCHANGED <<sideVars, errors_list, apiKey, hasText, variant, argsForce, argsRetry,
                   argsN, prompts, run, pc, loopList,
                   pos, attempt, hist, waits, calls, body, prog, pre, outcome, raised,
                   rmFailed, clean, prevClean>>

\* the line reported once the file is closed
verify_size(size) ==
    CASE variant = "base" -> "generated"
      [] variant = "fixed" -> IF size = 0 THEN "warned" ELSE "generated"
      [] variant = "complete" -> IF size < SMALL_FILE THEN "warned" ELSE "generated"
      [] OTHER -> "generated"

\* The iterator generate() returned is read after "with requests.post(...)"
\* has closed the response: it may stop before the whole body was delivered.
\* The first chunk of the fixed script is already in memory.
stream_may_end(size) ==
    CASE variant = "base" -> TRUE
      [] variant = "fixed" -> size >= Min(CHUNK_SIZE, body)
      [] OTHER -> FALSE

\* the stream ends, the file is closed, its size is verified and reported
CloseStream ==
    /\ pc = "write"
    /\ variant \in {"base", "fixed"}
    /\ stream_may_end(StSize(OutPath(CurFile)))
    /\ outcome' = [outcome EXCEPT ![Cur] = verify_size(StSize(OutPath(CurFile)))]
    /\ pc' = "next"
    /\ partial' = partial \ {OutPath(CurFile)}
    /\ UNCHANGED <<sideVars, errors_list, apiKey, hasText, variant, argsForce, argsRetry,
                   argsN, prompts, fs, run, loopList,
                   pos, attempt, hist, waits, calls, body, prog, pre, raised,
                   rmFailed, clean, prevClean>>

\* f.write(audio_data), close, verify   (buffered script)
WriteAll ==
    /\ pc = "write"
    /\ variant = "complete"
    /\ fs' = [fs EXCEPT ![OutPath(CurFile)].size = body]
    /\ outcome' = [outcome EXCEPT ![Cur] = verify_size(body)]
    /\ partial' = partial \ {OutPath(CurFile)}
    /\ pc' = "next"
    /\ UNCHANGED <<sideVars, errors_list, apiKey, hasText, variant, argsForce, argsRetry,
                   argsN, prompts, run, loopList, pos,
                   attempt, hist, waits, calls, body, prog, pre, raised, rmFailed,
                   clean, prevClean>>

\* the stream or the write raises while the file is open
StreamRaise ==
    /\ pc = "write"
    /\ Raise
    /\ UNCHANGED <<sideVars, errors_list, apiKey, hasText, variant, argsForce, argsRetry,
                   argsN, prompts, fs, partial, run, loopList,
                   pos, attempt, hist, waits, calls, body, prog, pre, outcome,
                   rmFailed, prevClean>>

-----------------------------------------------------------------------------
(* generate_and_save_image_with_retry(): for i, img in enumerate(images)    *)
SaveImage ==
    /\ pc = "save"
    /\ prog < body
    /\ \E s \in ImageSizes :
          fs' = [fs EXCEPT ![SavePath(CurFile, prog)] = [size |-> s, by |-> Cur]]
    /\ prog' = prog + 1
    /\ UNCHANGED partial
    /\ UNCHANGED <<sideVars, errors_list, apiKey, hasText, variant, argsForce, argsRetry,
                   argsN, prompts, run, pc, loopList,
                   pos, attempt, hist, waits, calls, body, pre, outcome, raised,
                   rmFailed, clean, prevClean>>

\* img.save raises: not ResourceExhausted, so tenacity re-raises at once
SaveRaise ==
    /\ pc = "save"
    /\ prog < body
    /\ Raise
    /\ UNCHANGED <<sideVars, errors_list, apiKey, hasText, variant, argsForce, argsRetry,
                   argsN, prompts, fs, partial, run, loopList,
                   pos, attempt, hist, waits, calls, body, prog, pre, outcome,
                   rmFailed, prevClean>>

\* every returned image is saved: the call returns to main
SaveDone ==
    /\ pc = "save"
    /\ prog = body
    /\ outcome' = [outcome EXCEPT ![Cur] = "generated"]
    /\ pc' = "next"
    /\ UNCHANGED <<sideVars, errors_list, apiKey, hasText, variant, argsForce, argsRetry,
                   argsN, prompts, fs, partial, run, loopList,
                   pos, attempt, hist, waits, calls, body, prog, pre, raised,
                   rmFailed, clean, prevClean>>

-----------------------------------------------------------------------------
(* ElevenLabsTextToSpeechTool.execute, elevenlabs_a2a_agent.py *)

\* "Create zero-byte file first": with open(out_path, "wb") as f: pass
A2ATouch ==
    /\ pc = "touch"
    /\ fs' = [fs EXCEPT ![OutPath(CurFile)] = [size |-> 0, by |-> Cur]]
    /\ partial' = partial \cup {OutPath(CurFile)}
    /\ pc' = "a2a_call"
    /\ UNCHANGED <<sideVars, errors_list, apiKey, hasText, variant, argsForce, argsRetry,
                   argsN, prompts, run, loopList, pos,
                   attempt, hist, waits, calls, body, prog, pre, outcome, raised,
                   rmFailed, clean, prevClean>>

\* generate_elevenlabs_audio.generate(tts_cfg=..., api_key=..., debug=...):
\* generate(tts_cfg, api_key) takes no debug argument, so the call raises
\* TypeError before any request is sent; is_http_429_error is false of it and
\* tenacity re-raises at once.  Lines 116-136 of execute are never reached.
A2AGenerate ==
    /\ pc = "a2a_call"
    /\ Raise
    /\ UNCHANGED <<sideVars, errors_list, apiKey, hasText, variant, argsForce, argsRetry,
                   argsN, prompts, fs, partial, run, loopList,
                   pos, attempt, hist, waits, calls, body, prog, pre, outcome,
                   rmFailed, prevClean>>

-----------------------------------------------------------------------------
(* except Exception as e: the record is reported as failed *)

\* mutant: the error is not caught in the loop and ends the batch
ExceptScript_abort ==
    /\ pc = "except"
    /\ variant # "a2a"
    /\ outcome' = [outcome EXCEPT ![Cur] = "failed"]
    /\ pc' = "fin"
    /\ UNCHANGED <<sideVars, errors_list, apiKey, hasText, variant, argsForce, argsRetry,
                   argsN, prompts, fs, partial, run,
                   loopList, pos, attempt, hist, waits, calls, body, prog, pre,
                   raised, rmFailed, clean, prevClean>>

\* mutant: the file at the record's path is removed when the record fails
ExceptScript_cleanup ==
    /\ pc = "except"
    /\ variant # "a2a"
    /\ outcome' = [outcome EXCEPT ![Cur] = "failed"]
    /\ fs' = [fs EXCEPT ![OutPath(CurFile)] = Absent]
    /\ pc' = "next"
    /\ UNCHANGED <<sideVars, errors_list, apiKey, hasText, variant, argsForce,
                   argsRetry, argsN, prompts, partial, run, loopList, pos, attempt,
                   hist, waits, calls, body, prog, pre, raised, rmFailed, clean,
                   prevClean>>

\* the scripts print the error and leave the directory as it is
ExceptScript ==
    /\ pc = "except"
    /\ variant # "a2a"
    /\ outcome' = [outcome EXCEPT ![Cur] = "failed"]
    /\ pc' = "next"
    /\ UNCHANGED <<sideVars, errors_list, apiKey, hasText, variant, argsForce, argsRetry,
                   argsN, prompts, fs, partial, run, loopList,
                   pos, attempt, hist, waits, calls, body, prog, pre, raised,
                   rmFailed, clean, prevClean>>

\* mutant: the empty file is left in place
remove_empty_never(p) == FALSE

\* if out_path.exists() and out_path.stat().st_size == 0: os.remove(out_path)
remove_empty(p) == Exists(p) /\ StSize(p) = 0

\* mutant: the error message is appended a second time
append_error_twice(n) == n + 2

\* errors_list.append(error_msg)
append_error(n) == n + 1

\* the tool appends the error and removes the file if it is empty; os.remove
\* may raise OSError, which is logged
ExceptA2A ==
    /\ pc = "except"
    /\ variant = "a2a"
    /\ outcome' = [outcome EXCEPT ![Cur] = "failed"]
    /\ IF remove_empty(OutPath(CurFile))
       THEN \/ /\ fs' = [fs EXCEPT ![OutPath(CurFile)] = Absent]
               /\ partial' = partial \ {OutPath(CurFile)}
               /\ UNCHANGED rmFailed
            \/ /\ rmFailed' = TRUE
               /\ UNCHANGED <<fs, partial>>
       ELSE UNCHANGED <<fs, partial, rmFailed>>
    /\ pc' = "next"
    /\ errors_list' = append_error(errors_list)
    /\ UNCHANGED <<sideVars, apiKey, hasText, variant, argsForce, argsRetry, argsN,
                   prompts, run, loopList, pos, attempt, hist, waits, calls, body,
                   prog, pre, raised, clean, prevClean>>

-----------------------------------------------------------------------------
(* The loop goes on to the next entry, or ends *)

\* mutant: the loop ends after the entry it is at
Advance_ends ==
    /\ pc = "next"
    /\ pos' = pos
    /\ pc' = "fin"
    /\ UNCHANGED <<sideVars, errors_list, apiKey, hasText, variant, argsForce, argsRetry,
                   argsN,
                   prompts, fs, partial, run, loopList, attempt, hist, waits, calls,
                   body, prog, pre, outcome, raised, rmFailed, clean, prevClean>>

Advance ==
    /\ pc = "next"
    /\ IF pos < Len(loopList)
       THEN pos' = pos + 1 /\ pc' = "check"
       ELSE pos' = pos /\ pc' = "fin"
    /\ UNCHANGED <<sideVars, errors_list, apiKey, hasText, variant, argsForce, argsRetry,
                   argsN, prompts, fs, partial, run, loopList,
                   attempt, hist, waits, calls, body, prog, pre, outcome, raised,
                   rmFailed, clean, prevClean>>

(* The process is interrupted (signal): its memory is gone, whatever is on  *)
(* disk stays                                                               *)
Kill ==
    /\ Running
    /\ pc' = "killed"
    /\ clean' = FALSE
    /\ attempt' = 0
    /\ hist' = <<>>
    /\ waits' = <<>>
    /\ calls' = 0
    /\ body' = 0
    /\ prog' = 0
    /\ pre' = fs
    /\ rmFailed' = FALSE
    /\ UNCHANGED <<sideVars, errors_list, apiKey, hasText, variant, argsForce, argsRetry,
                   argsN, prompts, fs, partial, run, loopList,
                   pos, outcome, raised, prevClean>>

(* The script is run again: same arguments, same list, same directory *)
NextRun ==
    /\ pc \in {"fin", "killed", "crashed", "cfg_error"}
    /\ run < MaxRuns
    /\ run' = run + 1
    /\ prevClean' = (pc = "fin" /\ clean)
    /\ clean' = TRUE
    /\ fs' = [p \in Paths |-> [size |-> fs[p].size, by |-> 0]]
    /\ pc' = "start"
    /\ loopList' = <<>>
    /\ pos' = 1
    /\ attempt' = 0
    /\ hist' = <<>>
    /\ waits' = <<>>
    /\ calls' = 0
    /\ body' = 0
    /\ prog' = 0
    /\ pre' = fs'
    /\ outcome' = [i \in 1 .. Len(prompts) |-> "none"]
    /\ raised' = {}
    /\ rmFailed' = FALSE
    /\ errors_list' = 0
    /\ UNCHANGED <<sideVars, apiKey, hasText, variant, argsForce, argsRetry, argsN,
                   prompts, partial>>

Next ==
    \/ MainStart
    \/ KeyErrorFilename
    \/ SkipMalformed
    \/ SkipRecord
    \/ BeginRecord
    \/ GenerateKeyError
    \/ TenacityCall
    \/ RetryLoopCall
    \/ OpenFile
    \/ WriteChunk
    \/ CloseStream
    \/ WriteAll
    \/ StreamRaise
    \/ SaveImage
    \/ SaveRaise
    \/ SaveDone
    \/ A2ATouch
    \/ A2AGenerate
    \/ ExceptScript
    \/ ExceptA2A
    \/ Advance
    \/ Kill
    \/ NextRun

Spec == Init /\ [][Next]_vars

-----------------------------------------------------------------------------
(* One run that is not interrupted, in which every step that can be taken   *)
(* is eventually taken: every collaborator call returns or fails, every     *)
(* sleep ends                                                               *)
LiveNext ==
    \/ MainStart
    \/ KeyErrorFilename
    \/ SkipMalformed
    \/ SkipRecord
    \/ BeginRecord
    \/ GenerateKeyError
    \/ TenacityCall
    \/ RetryLoopCall
    \/ OpenFile
    \/ WriteChunk
    \/ CloseStream
    \/ WriteAll
    \/ StreamRaise
    \/ SaveImage
    \/ SaveRaise
    \/ SaveDone
    \/ A2ATouch
    \/ A2AGenerate
    \/ ExceptScript
    \/ ExceptA2A
    \/ Advance

LiveSpec == Init /\ [][LiveNext]_vars /\ WF_vars(LiveNext)

-----------------------------------------------------------------------------
(* The batch variables, while a pure computation is modelled on its own *)
MainIdle ==
    /\ variant \in Variants
    /\ argsN \in (IF variant = "vertex" THEN 1 .. MaxN ELSE {1})
    /\ argsForce = FALSE
    /\ argsRetry = FALSE
    /\ prompts = <<>>
    /\ hasText = <<>>
    /\ apiKey = TRUE
    /\ fs = [p \in Paths |-> Absent]
    /\ partial = {}
    /\ run = 1
    /\ pc = "idle"
    /\ loopList = <<>>
    /\ pos = 1
    /\ attempt = 0
    /\ hist = <<>>
    /\ waits = <<>>
    /\ calls = 0
    /\ body = 0
    /\ prog = 0
    /\ pre = fs
    /\ outcome = <<>>
    /\ raised = {}
    /\ rmFailed = FALSE
    /\ clean = TRUE
    /\ prevClean = FALSE
    /\ errors_list = 0

mainVars == <<variant, argsForce, argsRetry, argsN, prompts, fs, partial, run, pc,
              loopList, pos, attempt, hist, waits, calls, body, prog, pre, outcome,
              raised, rmFailed, clean, prevClean, apiKey, hasText, errors_list>>

-----------------------------------------------------------------------------
(* Resolution of an entry's "filename" to the path that is written.  A path *)
(* is its directory components, the stem and the extension of its last      *)
(* component, and the index put after the stem (-1: none).                  *)

\* where the script is started, and --output-dir below it
Cwd == <<"home", "proj">>
OutDir == Cwd \o <<"out_audio">>

\* the values of "filename" of an entry
FileDirs == {<<>>, <<"..", "..">>, <<"sub">>, <<"sub", "..">>}
Stems == {"clip", "evil"}
Exts == {"", ".mp3", ".wav"}
Filenames == [abs : BOOLEAN, dirs : FileDirs, stem : Stems, ext : Exts]

\* pathlib's "/": an absolute right operand replaces the left one
PathJoin(dir, f) ==
    [dirs |-> IF f.abs THEN f.dirs ELSE dir \o f.dirs,
     stem |-> f.stem, idx |-> -1, ext |-> f.ext]

\* pathlib.Path(filename).name, os.path.splitext, base_filename + ".mp3"
a2a_output_filename(f) == [abs |-> FALSE, dirs |-> <<>>, stem |-> f.stem, ext |-> ".mp3"]

\* out_dir / f"{stem}_{i}{suffix}", stem and suffix those of the last component
vertex_indexed(dir, f, i) ==
    [dirs |-> dir, stem |-> f.stem, idx |-> i,
     ext |-> IF f.ext = "" THEN ".png" ELSE f.ext]

\* the path the driver opens for the entry (its first image, for images)
resolve_out_path(f) ==
    CASE variant \in {"base", "fixed", "complete"} -> PathJoin(OutDir, f)
      [] variant = "vertex" -> IF argsN > 1 THEN vertex_indexed(OutDir, f, 0)
                               ELSE PathJoin(OutDir, f)
      [] variant = "a2a" -> PathJoin(OutDir, a2a_output_filename(f))

\* the directory the operating system reaches along the components d
RECURSIVE Walk(_, _)
Walk(at, d) ==
    IF d = <<>> THEN at
    ELSE IF Head(d) = ".."
    THEN Walk(IF at = <<>> THEN at ELSE SubSeq(at, 1, Len(at) - 1), Tail(d))
    ELSE Walk(Append(at, Head(d)), Tail(d))

IsPrefix(a, b) == Len(a) <= Len(b) /\ SubSeq(b, 1, Len(a)) = a

\* the file the path names lies in the output directory or below it
InsideOutDir(path) == IsPrefix(OutDir, Walk(<<>>, path.dirs))

ProviderExt == IF variant = "vertex" THEN ".png" ELSE ".mp3"

NameInit ==
    /\ MainIdle
    /\ filename \in Filenames
    /\ out_path = <<>>
    /\ args = <<>>
    /\ entry = <<>>
    /\ payload = <<>>
    /\ wpc = <<>>
    /\ wbody = <<>>

ResolvePath ==
    /\ out_path = <<>>
    /\ filename # <<>>
    /\ out_path' = resolve_out_path(filename)
    /\ UNCHANGED <<mainVars, filename, args, entry, payload, concVars>>

NameNext == ResolvePath

NameSpec == NameInit /\ [][NameNext]_vars

-----------------------------------------------------------------------------
(* The parameters of one generation request.  A value is "default" (the     *)
(* default of the command line flag, which is also the literal generate()   *)
(* falls back to), "cli" (given on the command line) or "rec" (given in the *)
(* entry); "absent" is a field the entry does not have.                     *)

\* "model", "stability", "similarity_boost" of an entry correspond to --model,
\* --voice-stability, --voice-similarity; the image script passes
\* --aspect_ratio, --language, --safety_filter_level and --n
Fields ==
    IF variant = "vertex"
    THEN {"aspect_ratio", "language", "safety_filter_level", "n"}
    ELSE {"model", "stability", "similarity_boost"}

\* tts_cfg.get("model", "eleven_multilingual_v2") and the like: args is not
\* looked at
tts_payload(f) == IF entry[f] # "absent" THEN entry[f] ELSE "default"

\* aspect_ratio=args.aspect_ratio and the like: the entry is not looked at
vertex_arguments(f) == args[f]

build_payload ==
    [f \in Fields |-> IF variant = "vertex" THEN vertex_arguments(f) ELSE tts_payload(f)]

ParamInit ==
    /\ MainIdle
    /\ filename = <<>>
    /\ out_path = <<>>
    /\ args \in [Fields -> IF variant = "a2a" THEN {"default"} ELSE {"default", "cli"}]
    /\ entry \in [Fields -> {"absent", "rec"}]
    /\ payload = <<>>
    /\ wpc = <<>>
    /\ wbody = <<>>

BuildPayload ==
    /\ payload = <<>>
    /\ args # <<>>
    /\ payload' = build_payload
    /\ UNCHANGED <<mainVars, filename, out_path, args, entry, concVars>>

ParamNext == BuildPayload

ParamSpec == ParamInit /\ [][ParamNext]_vars

-----------------------------------------------------------------------------
(* Vocabulary of the properties *)

\* the driver is working on record Cur, which it has examined
InRecord == pc \in {"call", "open", "write", "save", "touch", "a2a_call", "except", "next"}

Scripts == {"base", "fixed", "complete", "vertex"}
AudioScripts == {"base", "fixed", "complete"}

\* the record's output, as it was when the record was examined, met the
\* completeness threshold of the script
WasComplete ==
    CASE variant = "base" -> pre[OutPath(CurFile)].size >= 0
      [] variant = "fixed" -> pre[OutPath(CurFile)].size > 0
      [] variant = "complete" -> pre[OutPath(CurFile)].size >= SMALL_FILE
      [] variant = "vertex" -> \A p \in RecordPaths(CurFile) : pre[p].size >= 0
      [] OTHER -> FALSE

\* the record was skipped: no call, its files as they were, reported as skipped
Skipped ==
    /\ pc = "next"
    /\ outcome[Cur] = "skipped"
    /\ calls = 0
    /\ \A p \in RecordPaths(CurFile) : fs[p] = pre[p]

\* a file was written and no error reported (with or without a size warning)
Generated(i) == outcome[i] \in {"generated", "warned"}

-----------------------------------------------------------------------------
\* C1, as stated: in the four scripts, with force regeneration off, a record
\* whose output met the completeness threshold when it was examined is
\* skipped: no generation call, file unchanged, outcome skipped.
C1_SkipWhenComplete ==
    (InRecord /\ variant \in Scripts /\ ~argsForce /\ WasComplete) => Skipped

\* C1, amended: the same, with --retry of generate_elevenlabs_audio_fixed.py
\* off as well; --retry disables the skip check for the entries it selected
\* (for generate_vertex_images.py with n > 1 "exists" means all n indexed
\* files exist).
C1_SkipWhenCompleteNoRetry ==
    (InRecord /\ variant \in Scripts /\ ~argsForce /\ ~argsRetry /\ WasComplete)
        => Skipped

\* C1 witness: the buffered script skips a record whose file has exactly the
\* threshold size
C1_Witness ==
    /\ variant = "complete"
    /\ ~argsForce
    /\ pc = "next"
    /\ outcome[Cur] = "skipped"
    /\ pre[OutPath(CurFile)].size = SMALL_FILE

-----------------------------------------------------------------------------
\* the run being made follows a run that ended normally and in which every
\* generation call succeeded (and was answered in full), no stream and no
\* write raised; force regeneration is off
SecondCleanRun == run >= 2 /\ prevClean /\ ~argsForce

-----------------------------------------------------------------------------
-----------------------------------------------------------------------------
\* the attempts one record can get: stop_after_attempt(5) under tenacity,
\* range(MAX_RETRIES) in the retry loops
MaxAttempts == IF variant \in {"base", "vertex"} THEN STOP_AFTER_ATTEMPT ELSE MAX_RETRIES

\* every call made for the current record was answered with a rate-limit or
\* quota error
AllRateLimited ==
    /\ hist # <<>>
    /\ \A j \in 1 .. Len(hist) : hist[j] = "rate_limited"

NonDecreasing(w) == \A j \in 1 .. Len(w) - 1 : w[j] <= w[j + 1]

\* C4: a record whose every call is rate-limited gets exactly the maximum
\* number of attempts (5 under tenacity, 3 in the retry loops), one wait
\* between consecutive attempts, the waits non-decreasing and at most 60 s,
\* and is then reported failed.
C4_RateLimitedExhausts ==
    (variant \in Scripts /\ InRecord /\ AllRateLimited) =>
        /\ pc \in {"call", "except", "next"}
        /\ NonDecreasing(waits)
        /\ \A j \in 1 .. Len(waits) : waits[j] <= WAIT_MAX
        /\ pc = "call" => (calls < MaxAttempts /\ Len(waits) = calls)
        /\ pc \in {"except", "next"} =>
              (calls = MaxAttempts /\ Len(waits) = calls - 1 /\ Cur \in raised)
        /\ pc = "next" => outcome[Cur] = "failed"

\* C4 witness: the tenacity-backed audio script has made its five calls, all
\* rate-limited, waited four times and reported the record failed
C4_Witness ==
    /\ variant = "base"
    /\ pc = "next"
    /\ AllRateLimited
    /\ calls = STOP_AFTER_ATTEMPT
    /\ Len(waits) = STOP_AFTER_ATTEMPT - 1
    /\ waits[1] < waits[Len(waits)]
    /\ outcome[Cur] = "failed"

-----------------------------------------------------------------------------
\* the last call succeeded and every call before it was rate-limited
SucceededAfterRateLimits ==
    /\ hist # <<>>
    /\ hist[Len(hist)] = "ok"
    /\ \A j \in 1 .. Len(hist) - 1 : hist[j] = "rate_limited"

\* C5: rate-limited attempts below the maximum are retried, and when attempt
\* k succeeds after k-1 rate-limited ones exactly k calls have been made, no
\* call follows the success, and the record is reported generated (unless the
\* stream or the write raises afterwards).
C5_SuccessAtK ==
    (variant \in Scripts /\ InRecord) =>
        /\ (AllRateLimited /\ calls < MaxAttempts) => pc = "call"
        /\ SucceededAfterRateLimits =>
              /\ calls = Len(hist)
              /\ calls <= MaxAttempts
              /\ pc # "call"
              /\ (pc = "next" /\ Cur \notin raised) => Generated(Cur)

\* C5 witness: generated at the third call, after two rate-limited ones
C5_Witness ==
    /\ variant = "base"
    /\ pc = "next"
    /\ hist = <<"rate_limited", "rate_limited", "ok">>
    /\ calls = Len(hist)
    /\ outcome[Cur] = "generated"

-----------------------------------------------------------------------------
\* the answers the spec calls terminal: an HTTP status other than 429, a
\* network exception
Terminal == {"http_error", "network"}

\* a terminal answer is the last call of the record, which is failed
NotRetried(j) ==
    /\ j = Len(hist)
    /\ pc \in {"except", "next"}
    /\ Cur \in raised
    /\ pc = "next" => outcome[Cur] = "failed"

\* C6, as stated: after a terminal error no further call is made for the
\* record, which is failed at once.
C6_TerminalNotRetried ==
    (variant \in Scripts /\ InRecord) =>
        \A j \in 1 .. Len(hist) : hist[j] \in Terminal => NotRetried(j)

\* C6, amended: that holds of the tenacity-backed scripts
\* (generate_elevenlabs_audio.py, generate_vertex_images.py); the retry loops
\* of generate_elevenlabs_audio_fixed.py and
\* generate_elevenlabs_audio_complete.py retry a terminal error like any
\* other failure and fail the record only when the error is that of attempt
\* MAX_RETRIES = 3.
C6_TerminalNotRetriedByTenacity ==
    (variant \in Scripts /\ InRecord) =>
        \A j \in 1 .. Len(hist) : hist[j] \in Terminal =>
            IF variant \in {"base", "vertex"}
            THEN NotRetried(j)
            ELSE IF j < MAX_RETRIES
            THEN (j = Len(hist) => pc = "call") /\ (pc = "call" => calls < MAX_RETRIES)
            ELSE NotRetried(j)

\* C6 witness: one call, answered with an HTTP error other than 429, and the
\* record is failed
C6_Witness ==
    /\ variant = "base"
    /\ pc = "next"
    /\ hist = <<"http_error">>
    /\ calls = 1
    /\ outcome[Cur] = "failed"

-----------------------------------------------------------------------------
\* C7: an HTTP 200 answer with zero bytes of content is a failed attempt.  The
\* driver does not go on to write it, the record is not reported generated on
\* the strength of it, and no zero-byte file is written for a record without
\* an error reported for that record.
C7_EmptyIsFailure ==
    (variant \in AudioScripts /\ InRecord) =>
        /\ (hist # <<>> /\ hist[Len(hist)] = "empty") =>
              /\ pc \in {"call", "except", "next"}
              /\ pc = "next" => outcome[Cur] = "failed"
        /\ (pc = "next" /\ fs[OutPath(CurFile)] = [size |-> 0, by |-> Cur]) =>
              outcome[Cur] = "failed"

-----------------------------------------------------------------------------
\* C8: an empty answer that is not the last attempt is retried, and when the
\* next answer succeeds the record is reported generated, the file has the
\* size of the successful response and is not a zero-byte file.
C8_EmptyOnceThenSuccess ==
    (variant \in AudioScripts /\ InRecord) =>
        \A j \in 1 .. Len(hist) :
            (hist[j] = "empty" /\ j < MaxAttempts) =>
                /\ j = Len(hist) => pc = "call"
                /\ (j + 1 = Len(hist) /\ hist[j + 1] = "ok" /\ pc = "next"
                        /\ Cur \notin raised) =>
                      /\ Generated(Cur)
                      /\ fs[OutPath(CurFile)].size = body
                      /\ body > 0

-----------------------------------------------------------------------------
\* the last call made for the current record did not return a value to main
GenerateRaised ==
    /\ hist # <<>>
    /\ \/ hist[Len(hist)] \in {"rate_limited", "http_error", "network"}
       \/ hist[Len(hist)] = "empty" /\ variant \in {"fixed", "complete"}

\* C9, as stated: when the driver moves on from a record it reported failed,
\* no zero-byte file is at the record's output path (a removal that itself
\* fails aside).
C9_NoEmptyFileAfterFailure ==
    (pc = "next" /\ outcome[Cur] = "failed" /\ ~rmFailed) =>
        \A p \in RecordPaths(CurFile) : fs[p].size # 0

\* C9, amended: only the A2A tool cleans up after a failed record: it removes
\* the file at the record's path when it is empty, so that no zero-byte file
\* is left there unless os.remove itself raises OSError (which is logged).
\* The batch scripts remove nothing (generate_elevenlabs_audio_fixed.py on
\* purpose, "so we can see which ones failed"): a file that was there before
\* the record is still there, and when generate() raised, so that nothing was
\* opened, the directory is as it was.
C9_OnlyA2ACleansUp ==
    (pc = "next" /\ outcome[Cur] = "failed") =>
        /\ variant = "a2a" => (fs[OutPath(CurFile)].size # 0 \/ rmFailed)
        /\ variant \in Scripts =>
              \A p \in RecordPaths(CurFile) :
                  /\ pre[p].size >= 0 => fs[p].size >= 0
                  /\ GenerateRaised => fs[p] = pre[p]

\* C9 witness: the tool failed a record whose file existed with content; the
\* file it had truncated is removed
C9_Witness ==
    /\ variant = "a2a"
    /\ pc = "next"
    /\ outcome[Cur] = "failed"
    /\ pre[OutPath(CurFile)].size > 0
    /\ fs[OutPath(CurFile)] = Absent
    /\ ~rmFailed

-----------------------------------------------------------------------------
\* C10: a file left incomplete by an interrupted run or a failed write never
\* causes its record to be skipped by a later run made with force
\* regeneration off.
C10_IncompleteNotSkipped ==
    (run >= 2 /\ ~argsForce /\ variant \in Scripts /\ pc = "next"
        /\ outcome[Cur] = "skipped") =>
        \A p \in RecordPaths(CurFile) : p \notin partial

-----------------------------------------------------------------------------
\* C11: the path an entry's filename resolves to lies strictly inside the
\* output directory, whatever directory components the filename has, and a
\* filename without extension gets the extension of the provider's type
\* (clip resolves to clip.mp3); the audio drivers write .mp3 files only.
C11_ResolvedInsideOutDir ==
    out_path # <<>> =>
        /\ InsideOutDir(out_path)
        /\ filename.ext = "" => out_path.ext = ProviderExt
        /\ variant # "vertex" => out_path.ext = ".mp3"

-----------------------------------------------------------------------------
\* C12: when no API key is supplied (neither the flag or input field nor the
\* environment variable) the run ends with a configuration error before any
\* record is processed: no generation call is made, no output file is created
\* or modified, and no record gets an outcome or a failure of its own.
C12_NoKeyIsConfigError ==
    (variant # "vertex" /\ ~apiKey) =>
        /\ pc \in {"start", "cfg_error"}
        /\ calls = 0
        /\ hist = <<>>
        /\ fs = pre
        /\ partial = {}
        /\ raised = {}
        /\ \A i \in 1 .. Len(prompts) : outcome[i] = "none"

\* C12 witness: the tool was called without a key for two entries, one of
\* which has an empty file in the output directory; it returned its error and
\* the empty file is still there
C12_Witness ==
    /\ variant = "a2a"
    /\ ~apiKey
    /\ pc = "cfg_error"
    /\ Len(prompts) = 2
    /\ fs[OutPath(prompts[2])].size = 0

-----------------------------------------------------------------------------
\* some entry of the list lacks its filename or its payload fields
MalformedList ==
    \E i \in 1 .. Len(prompts) : prompts[i] = NoFilename \/ ~hasText[i]

\* C13: when the prompt list is malformed (an entry lacks its filename or its
\* payload field) the run fails before any record is attempted: no generation
\* call is made, no file is written for any record, well-formed entries ahead
\* of the malformed one included, and the run does not end as a normal run.
C13_MalformedAbortsBeforeAnyRecord ==
    (variant \in Scripts /\ MalformedList) =>
        /\ calls = 0
        /\ \A p \in Paths : fs[p].by = 0
        /\ pc # "fin"

-----------------------------------------------------------------------------
\* an entry examined earlier in this run has the filename of the current one
DuplicateOfEarlier ==
    /\ CurFile # NoFilename
    /\ \E k \in 1 .. pos - 1 : prompts[loopList[k]] = CurFile

\* the files the current record wrote are its own
OutputIsCurrent ==
    IF variant = "vertex"
    THEN \A i \in 0 .. body - 1 : fs[SavePath(CurFile, i)].by = Cur
    ELSE fs[OutPath(CurFile)].by = Cur

\* C14, as stated: a record with the filename of a record generated earlier
\* in the batch is not skipped; it is generated too and its output replaces
\* the earlier record's.
C14_DuplicateOverwrites ==
    (variant \in Scripts /\ pc = "next" /\ hasText[Cur] /\ CurFile # NoFilename
        /\ \E k \in 1 .. pos - 1 :
               prompts[loopList[k]] = CurFile /\ Generated(loopList[k])) =>
        /\ outcome[Cur] # "skipped"
        /\ Generated(Cur) => OutputIsCurrent

\* C14, amended: the drivers do not deduplicate, and a record with the
\* filename of an earlier record goes through the skip check like any other:
\* it is skipped, and the earlier output kept, exactly when the file it finds
\* meets the script's threshold (force and --retry off), which is the case as
\* soon as the earlier record wrote a complete file; otherwise it is generated
\* and on success its output replaces whatever was there.  The A2A tool has
\* no skip check and never skips the later record.
C14_DuplicateSkippedOrOverwrites ==
    (pc = "next" /\ DuplicateOfEarlier /\ hasText[Cur]) =>
        /\ variant \in Scripts =>
              (outcome[Cur] = "skipped" <=> (WasComplete /\ ~argsForce /\ ~argsRetry))
        /\ variant = "a2a" => outcome[Cur] # "skipped"
        /\ outcome[Cur] = "skipped" => Skipped
        /\ Generated(Cur) => OutputIsCurrent

\* C14 witness: the buffered script wrote a short file for the first record
\* and the second record, which has the same filename, replaced it
C14_Witness ==
    /\ variant = "complete"
    /\ pc = "next"
    /\ pos = 2
    /\ DuplicateOfEarlier
    /\ outcome[loopList[1]] = "warned"
    /\ outcome[Cur] = "generated"
    /\ fs[OutPath(CurFile)] = [size |-> SMALL_FILE, by |-> Cur]

-----------------------------------------------------------------------------
\* C15: with --force (generate_elevenlabs_audio_complete.py) every record of
\* the list is a candidate: none is skipped, generate_audio is invoked for
\* each, also for a record whose file exists with 10000 bytes or more, and a
\* successful generation replaces the file that was there.
C15_ForceRegeneratesAll ==
    (variant = "complete" /\ argsForce) =>
        /\ \A i \in 1 .. Len(prompts) : outcome[i] # "skipped"
        /\ pc = "check" => ~SkipExisting(CurFile)
        /\ pc = "next" =>
              /\ hasText[Cur] => calls >= 1
              /\ Generated(Cur) => fs[OutPath(CurFile)] = [size |-> body, by |-> Cur]
        /\ pc = "fin" =>
              \A i \in 1 .. Len(prompts) : Generated(i) \/ outcome[i] = "failed"

\* C15 witness: with --force a file of 10000 bytes was replaced by the 4096
\* bytes of a new successful answer
C15_Witness ==
    /\ variant = "complete"
    /\ argsForce
    /\ pc = "next"
    /\ pre[OutPath(CurFile)].size = SMALL_FILE
    /\ Generated(Cur)
    /\ fs[OutPath(CurFile)] = [size |-> CHUNK_SIZE, by |-> Cur]

-----------------------------------------------------------------------------
\* C16: the parameters sent for a record are the batch-level defaults of the
\* command line with the fields of the record layered on top: a field the
\* record has wins, a field it lacks takes the command line value.
C16_OverridesOverDefaults ==
    payload # <<>> =>
        \A f \in Fields :
            payload[f] = IF entry[f] # "absent" THEN entry[f] ELSE args[f]

-----------------------------------------------------------------------------
\* C17: records are processed in list order, one at a time.  The loop walks
\* the list in increasing order; every entry before the current one has its
\* outcome; an entry after the current one has no outcome, no failure and no
\* file written for it, and the current entry has no outcome before its
\* eligibility check: every call, wait, write and report of record i comes
\* before the check of record j > i.
C17_ListOrderOneAtATime ==
    /\ \A k \in 1 .. Len(loopList) - 1 : loopList[k] < loopList[k + 1]
    /\ pc \notin {"start", "cfg_error", "idle"} =>
          \A k \in 1 .. Len(loopList) :
              /\ k < pos => outcome[loopList[k]] # "none"
              /\ (k > pos \/ (k = pos /\ pc = "check")) =>
                    /\ outcome[loopList[k]] = "none"
                    /\ loopList[k] \notin raised
                    /\ \A p \in Paths : fs[p].by # loopList[k]

\* C17 witness: the first record was rate-limited, waited, was called again
\* and written; the second record is now at its eligibility check
C17_Witness ==
    /\ pc = "check"
    /\ pos = 2
    /\ outcome[loopList[1]] = "generated"
    /\ hist = <<"rate_limited", "ok">>
    /\ Len(waits) = 1
    /\ fs[OutPath(prompts[loopList[1]])].by = loopList[1]
    /\ outcome[loopList[2]] = "none"

-----------------------------------------------------------------------------
\* the completeness check of each script, applied to the files of filename f
\* as they are now
PassesCheck(f) ==
    CASE variant = "base" -> Exists(OutPath(f))
      [] variant = "fixed" -> Exists(OutPath(f)) /\ StSize(OutPath(f)) > 0
      [] variant = "complete" -> Exists(OutPath(f)) /\ StSize(OutPath(f)) >= SMALL_FILE
      [] variant = "vertex" -> all_files_exist(f)
      [] OTHER -> FALSE

\* C18: in every reachable state, a file that was opened for writing and has
\* not received all the bytes of a successful generation (a write in
\* progress, or what a failed or interrupted write left) does not pass the
\* driver's completeness check.
C18_CheckPassesOnlyWhenWritten ==
    variant \in Scripts =>
        \A f \in Files :
            (\E p \in RecordPaths(f) : p \in partial) => ~PassesCheck(f)

-----------------------------------------------------------------------------
\* the outcomes a processed record can have: generated (with or without a
\* size warning), skipped, failed
Outcomes == {"generated", "warned", "skipped", "failed"}

\* the run was started with an API key and a list of well-formed entries
ValidInput == ~api_key_missing /\ ~MalformedList

\* C19, as stated: a run whose calls all return or fail terminates, and then
\* every record of the list has one of the outcomes generated, skipped,
\* failed.
C19_EveryRecordProcessed ==
    ValidInput =>
        <>(pc = "fin" /\ \A i \in 1 .. Len(prompts) : outcome[i] \in Outcomes)

\* C19, amended: such a run always terminates.  It ends normally when an API
\* key is supplied and every entry is well-formed (without a key it ends with
\* the configuration error, and a missing filename can end it with a KeyError
\* part-way), and when it ends normally every record the loop iterates has
\* exactly one outcome.  The loop iterates the whole list, except with --retry
\* of generate_elevenlabs_audio_fixed.py, where the entries whose file is not
\* a zero-byte file are left out and get no outcome.
C19_RunTerminates ==
    /\ <>(pc \in {"fin", "crashed", "cfg_error"})
    /\ ValidInput => <>(pc = "fin")
    /\ [](pc = "fin" =>
            \A i \in 1 .. Len(prompts) :
                /\ outcome[i] \in Outcomes \cup {"dropped"}
                /\ outcome[i] = "dropped" =>
                      /\ variant = "fixed" /\ argsRetry
                      /\ \A k \in 1 .. Len(loopList) : loopList[k] # i
                /\ outcome[i] \in Outcomes =>
                      \E k \in 1 .. Len(loopList) : loopList[k] = i)

\* C19 witness: a --retry run ended; its first entry was left out, its second
\* entry, whose file was empty, was generated
C19_Witness ==
    /\ variant = "fixed"
    /\ argsRetry
    /\ pc = "fin"
    /\ outcome = <<"dropped", "generated">>

-----------------------------------------------------------------------------
\* base * 2^attempt, attempt counted from 0, clamped to [minWait, maxWait]
ClampedBackoff(k) ==
    LET w == WAIT_MULTIPLIER * Pow2(k)
    IN  IF w < WAIT_MIN THEN WAIT_MIN ELSE IF w > WAIT_MAX THEN WAIT_MAX ELSE w

-----------------------------------------------------------------------------
\* the prompts the tool is through with
Processed == IF pc \in {"next", "fin"} THEN pos ELSE pos - 1

\* the prompts for which a file artifact was appended to generated_files
generated_files == {i \in 1 .. Len(prompts) : outcome[i] = "generated"}

-----------------------------------------------------------------------------
\* a file of sz bytes is a complete artifact by the measure of the script
\* (10000 bytes in generate_elevenlabs_audio_complete.py, content elsewhere)
CompleteSize(sz) == IF variant = "complete" THEN sz >= SMALL_FILE ELSE sz > 0

\* C21: the output directory is append-only in effect.  When a record has
\* been processed, an artifact that was complete at the record's path before
\* is as it was, or a successful generation of this record has replaced it
\* with a complete artifact; a failed attempt leaves it intact.
C21_CompleteArtifactsKept ==
    pc = "next" =>
        \A p \in RecordPaths(CurFile) :
            CompleteSize(pre[p].size) =>
                \/ fs[p] = pre[p]
                \/ /\ fs[p].by = Cur
                   /\ p \notin partial
                   /\ CompleteSize(fs[p].size)

-----------------------------------------------------------------------------
\* C23: in generate_elevenlabs_audio_complete.py a record whose generate_audio
\* call failed (API error, empty body or network error at each of the
\* MAX_RETRIES attempts) leaves the file system exactly as it was before the
\* record: nothing is created, truncated or modified, since the file is
\* opened only once the whole response is in memory.
C23_FailedCallLeavesFilesAlone ==
    (variant = "complete" /\ pc \in {"except", "next"} /\ GenerateRaised) =>
        /\ calls = MAX_RETRIES
        /\ fs = pre
        /\ pc = "next" => outcome[Cur] = "failed"

\* C23 witness: an API error, an empty body and a network error; the record
\* failed and the short file that was at its path is as it was
C23_Witness ==
    /\ variant = "complete"
    /\ pc = "next"
    /\ hist = <<"http_error", "empty", "network">>
    /\ outcome[Cur] = "failed"
    /\ pre[OutPath(CurFile)].size = 0
    /\ fs = pre

-----------------------------------------------------------------------------
\* entry i of the list is one of those the loop iterates
Selected(i) == \E k \in 1 .. Len(loopList) : loopList[k] = i

\* C24: with --retry of generate_elevenlabs_audio_fixed.py generation is
\* attempted for exactly the entries whose file was a zero-byte file when the
\* run started, in list order.  An entry that is iterated and whose file has
\* not been written in this run has a zero-byte file; every entry iterated so
\* far went to generation and none was skipped; an entry that is not iterated
\* has a file that is absent or non-empty, gets no call and its file is not
\* touched.
C24_RetrySelectsZeroByteFiles ==
    (variant = "fixed" /\ argsRetry /\ pc \notin {"start", "crashed", "cfg_error", "idle"}) =>
        /\ \A k \in 1 .. Len(loopList) - 1 : loopList[k] < loopList[k + 1]
        /\ \A i \in 1 .. Len(prompts) :
              IF Selected(i)
              THEN fs[OutPath(prompts[i])].by = 0 => fs[OutPath(prompts[i])].size = 0
              ELSE /\ outcome[i] = "dropped"
                   /\ fs[OutPath(prompts[i])].by = 0
                   /\ fs[OutPath(prompts[i])].size # 0
        /\ \A k \in 1 .. Len(loopList) :
              k < pos => outcome[loopList[k]] \in {"generated", "warned", "failed"}
        /\ pc = "next" => outcome[Cur] # "skipped"

\* C24 witness: a --retry run ended; the first entry, whose file was empty,
\* was generated, the second entry, whose file has 10000 bytes, was left out
C24_Witness ==
    /\ variant = "fixed"
    /\ argsRetry
    /\ pc = "fin"
    /\ outcome = <<"generated", "dropped">>
    /\ fs[OutPath(prompts[1])].by = 1
    /\ fs[OutPath(prompts[2])] = [size |-> SMALL_FILE, by |-> 0]

-----------------------------------------------------------------------------
\* every call made for the current record failed, as the retry loops see it:
\* a status other than 200, an empty body or a network exception
AllAttemptsFailed ==
    /\ hist # <<>>
    /\ \A j \in 1 .. Len(hist) :
          hist[j] \in {"rate_limited", "http_error", "network", "empty"}

\* C25: in the retry loops of generate_elevenlabs_audio_fixed.py and
\* generate_elevenlabs_audio_complete.py a record gets at most MAX_RETRIES = 3
\* calls and every sleep is RETRY_DELAY.  When every attempt fails, in any mix
\* of bad status, empty body and network exception, exactly 3 calls are made,
\* with one sleep between consecutive attempts and none after the last, and
\* the function raises instead of returning a value.
C25_RetryLoopExhausts ==
    (variant \in {"fixed", "complete"} /\ InRecord) =>
        /\ calls <= MAX_RETRIES
        /\ calls = Len(hist)
        /\ \A j \in 1 .. Len(waits) : waits[j] = RETRY_DELAY
        /\ pc = "call" => Len(waits) = calls
        /\ (pc # "call" /\ calls >= 1) => Len(waits) = calls - 1
        /\ AllAttemptsFailed =>
              /\ pc \in {"call", "except", "next"}
              /\ pc = "call" => calls < MAX_RETRIES
              /\ pc \in {"except", "next"} =>
                    /\ calls = MAX_RETRIES
                    /\ Len(waits) = MAX_RETRIES - 1
                    /\ Cur \in raised
              /\ pc = "next" => outcome[Cur] = "failed"

\* C25 witness: a network exception, a bad status and an empty body; three
\* calls, two sleeps of RETRY_DELAY, and the record failed
C25_Witness ==
    /\ variant = "fixed"
    /\ pc = "next"
    /\ hist = <<"network", "http_error", "empty">>
    /\ calls = MAX_RETRIES
    /\ waits = <<RETRY_DELAY, RETRY_DELAY>>
    /\ outcome[Cur] = "failed"

-----------------------------------------------------------------------------
\* the files the image script looks for existed when the entry was examined:
\* the file named by filename for n = 1, the n indexed files for n > 1
AllExisted ==
    IF argsN = 1 THEN pre[OutPath(CurFile)].size >= 0
    ELSE \A i \in 0 .. argsN - 1 : pre[IndexedPath(CurFile, i)].size >= 0

\* C26: in generate_vertex_images.py a well-formed record is skipped if and
\* only if all the files looked for exist (the n indexed files for n > 1, the
\* file named by filename for n = 1).  If one is missing the record goes to
\* generation, and when it is generated every image returned is saved under
\* its indexed name, replacing an indexed file that was there; for n > 1
\* nothing is written under the plain filename.
C26_SkipIffAllIndexedExist ==
    (variant = "vertex" /\ InRecord /\ ~malformed_entry) =>
        /\ AllExisted => Skipped
        /\ ~AllExisted =>
              /\ pc = "next" => (outcome[Cur] # "skipped" /\ calls >= 1)
              /\ (pc = "next" /\ outcome[Cur] = "generated") =>
                    \A i \in 0 .. body - 1 : fs[SavePath(CurFile, i)].by = Cur
        /\ argsN > 1 => fs[OutPath(CurFile)] = pre[OutPath(CurFile)]

\* C26 witness: n = 2, the first indexed file existed and the second did not;
\* the record was generated and both indexed files are now its own
C26_Witness ==
    /\ variant = "vertex"
    /\ argsN = 2
    /\ pc = "next"
    /\ ~malformed_entry
    /\ pre[IndexedPath(CurFile, 0)].size >= 0
    /\ pre[IndexedPath(CurFile, 1)].size < 0
    /\ outcome[Cur] = "generated"
    /\ fs[IndexedPath(CurFile, 0)].by = Cur
    /\ fs[IndexedPath(CurFile, 1)].by = Cur

-----------------------------------------------------------------------------
(* Two runs of a driver started on the same prompt list and the same output *)
(* directory, force regeneration off.  Each run is a process of its own:    *)
(* the only thing the two share is the directory.  The list has one record, *)
(* a.mp3; a run's retries of the request do not touch the directory and are *)
(* folded into the one step in which generate() returns or raises.          *)

Workers == {1, 2}
ConcVariants == {"base", "fixed", "complete", "a2a"}

\* a run's own state at the record: the body generate() returned, the offset
\* of its file handle, and whether it has called generate()
WorkerIdle == [body |-> 0, off |-> 0, called |-> FALSE]

ConcInit ==
    /\ variant \in ConcVariants
    /\ argsForce = FALSE
    /\ argsRetry = FALSE
    /\ argsN = 1
    /\ prompts = <<"a.mp3">>
    /\ hasText = <<TRUE>>
    /\ apiKey = TRUE
    /\ \E s \in InitSizes :
          fs = [p \in Paths |-> IF p = OutPath("a.mp3")
                                THEN [size |-> s, by |-> 0] ELSE Absent]
    /\ partial = {}
    /\ run = 1
    /\ pc = "workers"
    /\ loopList = <<1>>
    /\ pos = 1
    /\ attempt = 0
    /\ hist = <<>>
    /\ waits = <<>>
    /\ calls = 0
    /\ body = 0
    /\ prog = 0
    /\ pre = fs
    /\ outcome = <<"none">>
    /\ raised = {}
    /\ rmFailed = FALSE
    /\ clean = TRUE
    /\ prevClean = FALSE
    /\ errors_list = 0
    /\ filename = <<>>
    /\ out_path = <<>>
    /\ args = <<>>
    /\ entry = <<>>
    /\ payload = <<>>
    /\ wpc = [w \in Workers |-> "check"]
    /\ wbody = [w \in Workers |-> WorkerIdle]

\* what a run leaves alone: everything but the directory and its own position
concFrame == <<filename, out_path, args, entry, payload, errors_list, apiKey,
               hasText, variant, argsForce, argsRetry, argsN, prompts, run, pc,
               loopList, pos, attempt, hist, waits, calls, body, prog, pre,
               outcome, raised, rmFailed, clean, prevClean>>

\* the paths some run holds open for writing
OpenPaths(pcs) ==
    IF \E w \in Workers : pcs[w] = "write" THEN {OutPath(CurFile)} ELSE {}

\* if out_path.exists(): continue   (no such test in the A2A tool, which goes
\* straight to creating the file)
WorkerCheck(w) ==
    /\ wpc[w] = "check"
    /\ wpc' = [wpc EXCEPT ![w] = IF SkipExisting(CurFile) THEN "skipped"
                                 ELSE IF variant = "a2a" THEN "touch"
                                 ELSE "call"]
    /\ UNCHANGED <<fs, partial, wbody, concFrame>>

\* stream = generate(entry, api_key): returns a body, or raises to the except
\* clause of the loop, which prints the error
WorkerGenerate(w) ==
    /\ wpc[w] = "call"
    /\ variant # "a2a"
    /\ \E ans \in Answers : \E b \in AnswerBodies(ans) :
          IF (variant = "base" /\ ans = "ok") \/
             (variant # "base" /\ loop_success(ans, b))
          THEN /\ wpc' = [wpc EXCEPT ![w] = "open"]
               /\ wbody' = [wbody EXCEPT ![w] =
                               [body |-> b, off |-> 0, called |-> TRUE]]
          ELSE /\ wpc' = [wpc EXCEPT ![w] = "failed"]
               /\ wbody' = [wbody EXCEPT ![w].called = TRUE]
    /\ UNCHANGED <<fs, partial, concFrame>>

\* with open(out_path, "wb") as f: the file is created, or truncated
WorkerOpen(w) ==
    /\ wpc[w] = "open"
    /\ fs' = [fs EXCEPT ![OutPath(CurFile)] = [size |-> 0, by |-> w]]
    /\ wpc' = [wpc EXCEPT ![w] = "write"]
    /\ partial' = OpenPaths(wpc')
    /\ UNCHANGED <<wbody, concFrame>>

\* f.write(chunk) at the offset of this run's handle: one chunk of the stream,
\* or the whole buffered body of the complete script
WorkerWrite(w) ==
    /\ wpc[w] = "write"
    /\ wbody[w].off < wbody[w].body
    /\ LET n == IF variant = "complete" THEN wbody[w].body
                ELSE wbody[w].off + Min(CHUNK_SIZE, wbody[w].body - wbody[w].off)
       IN  /\ wbody' = [wbody EXCEPT ![w].off = n]
           /\ fs' = [fs EXCEPT ![OutPath(CurFile)] =
                        [size |-> Max(@.size, n), by |-> w]]
    /\ UNCHANGED <<partial, wpc, concFrame>>

\* the stream ends (the base script's at any chunk, the fixed script's after
\* its first chunk, the buffered body when it is written) and the file is closed
WorkerClose(w) ==
    /\ wpc[w] = "write"
    /\ CASE variant = "base" -> TRUE
         [] variant = "fixed" ->
               wbody[w].off >= Min(CHUNK_SIZE, wbody[w].body)
         [] OTHER -> wbody[w].off = wbody[w].body
    /\ wpc' = [wpc EXCEPT ![w] = "done"]
    /\ partial' = OpenPaths(wpc')
    /\ UNCHANGED <<fs, wbody, concFrame>>

\* the A2A tool: with open(out_path, "wb") as f: pass
WorkerTouch(w) ==
    /\ wpc[w] = "touch"
    /\ fs' = [fs EXCEPT ![OutPath(CurFile)] = [size |-> 0, by |-> w]]
    /\ wpc' = [wpc EXCEPT ![w] = "a2a_call"]
    /\ UNCHANGED <<partial, wbody, concFrame>>

\* the A2A tool's call of generate(..., debug=...) raises TypeError
WorkerA2AGenerate(w) ==
    /\ wpc[w] = "a2a_call"
    /\ wbody' = [wbody EXCEPT ![w].called = TRUE]
    /\ wpc' = [wpc EXCEPT ![w] = "except"]
    /\ UNCHANGED <<fs, partial, concFrame>>

\* the A2A tool's except clause removes the file if it is empty; an OSError
\* of os.remove is logged
WorkerExcept(w) ==
    /\ wpc[w] = "except"
    /\ IF remove_empty(OutPath(CurFile))
       THEN \/ fs' = [fs EXCEPT ![OutPath(CurFile)] = Absent]
            \/ UNCHANGED fs
       ELSE UNCHANGED fs
    /\ wpc' = [wpc EXCEPT ![w] = "failed"]
    /\ UNCHANGED <<partial, wbody, concFrame>>

ConcNext ==
    \E w \in Workers :
        \/ WorkerCheck(w)
        \/ WorkerGenerate(w)
        \/ WorkerOpen(w)
        \/ WorkerWrite(w)
        \/ WorkerClose(w)
        \/ WorkerTouch(w)
        \/ WorkerA2AGenerate(w)
        \/ WorkerExcept(w)

ConcSpec == ConcInit /\ [][ConcNext]_vars

\* the run is between its exists-check and the end of its work on the path
Targets(w) == wpc[w] \in {"call", "open", "write", "touch", "a2a_call", "except"}

\* C27: of two runs that process the same record with force regeneration off,
\* at most one is working on the record's output path at any time, and at
\* most one calls generate() for the record.
C27_OnePathOneWorker ==
    \A v \in DOMAIN wpc : \A w \in DOMAIN wpc :
        v # w => /\ ~(Targets(v) /\ Targets(w))
                 /\ ~(wbody[v].called /\ wbody[w].called)

====
